---- MODULE Spec2Model ----
(***************************************************************************)
(* State-machine model of src/App.js: the 3D model viewer component.       *)
(*                                                                         *)
(* One App instance.  The JavaScript engine runs one job at a time: an     *)
(* event handler or a network callback runs to its first await (or to its  *)
(* end) as one step.  The continuation of an await is a job of its own;    *)
(* whether other events can run before it depends on how the runtime       *)
(* schedules promise jobs, so the model allows every order.                *)
(* The handlers test nothing but sceneRef before they start, and the Modal *)
(* bound to isLoading is a view, not a guard of the handlers: the model    *)
(* lets a button press, a gesture and the context creation arrive in any   *)
(* state.  GLView creates its context, and calls onContextCreate, once.    *)
(* An operation is one invocation of onContextCreate's initial load, of    *)
(* handleReloadModel or of handleGenerate; operations are numbered in the  *)
(* order they are started, and the pivot built by load number o is pivot o.*)
(* A press of Reload Model that finds no scene is an operation that is     *)
(* done at once, with no effect.                                           *)
(* Angles are integers in microradians, so 0.001 rad is 1000.              *)
(***************************************************************************)
EXTENDS Integers, Sequences, FiniteSets, TLC

\* ---- bounds of the model -------------------------------------------------
MaxOps == 2
MaxDrags == 3
MaxCoord == 2

\* ---- program constants ---------------------------------------------------
\* const sensitivity = 0.001 (radians per unit of dx), in microradians
SensitivityMicro == 1000

\* null of a useRef(null)
NullRef == 0

Ops == 1..MaxOps

\* horizontal and vertical components of a gesture move (gestureState.dx, .dy)
DragDX == {-50, 100, 200}
DragDY == {0, 7}

\* ways the GET /model request made by OBJLoader.load can complete
LoadResults == {"ok", "http_error", "parse_error"}
\* ways the POST /generate fetch can complete
FetchResults == {"ok", "http_error", "network_error"}
\* ways response.json() / data.message can complete
JsonResults == {"ok", "parse_error"}

\* message texts
MsgGenerateFailed == "Failed to generate model"
MsgNetworkFailed == "Network request failed"
MsgJsonFailed == "JSON Parse error"
MsgServer == "Model generated"

\* user-visible and observable effects an operation performs, in order
EvBusyOn == "setIsLoading(true)"
EvBusyOff == "setIsLoading(false)"
EvReplace == "replaceModel"
EvConsoleError == "console.error"
EvBodyRead == "response.json()"
EvRenderStart == "render()"
Alert(text) == "alert:" \o text
AlertSuccess(msg) == Alert("Success: " \o msg)
AlertError(msg) == Alert("Error: " \o msg)


\* ---- geometry (THREE.Vector3, THREE.Box3, THREE.Object3D) -----------------
\* Coordinates are integers; a box is given by its corners min and max.
Origin == <<0, 0, 0>>
VAdd(a, b) == <<a[1] + b[1], a[2] + b[2], a[3] + b[3]>>
VSub(a, b) == <<a[1] - b[1], a[2] - b[2], a[3] - b[3]>>
\* multiplyScalar(0.5); exact on the vectors used here, whose entries are even
VHalf(a) == <<a[1] \div 2, a[2] \div 2, a[3] \div 2>>

BoxIsEmpty(b) == \E i \in 1..3 : b.max[i] < b.min[i]
\* box.getCenter(new THREE.Vector3())
BoxCenter(b) == IF BoxIsEmpty(b) THEN Origin ELSE VHalf(VAdd(b.min, b.max))

\* the object OBJLoader hands to onLoad: its geometry's bounding box in its own
\* coordinates, and its position, the origin
LoadedObject(box) == [position |-> Origin, box |-> box]
\* new THREE.Box3().setFromObject(object): the box in the parent's coordinates
BoxOfObject(obj) == [min |-> VAdd(obj.box.min, obj.position),
                     max |-> VAdd(obj.box.max, obj.position)]

\* new THREE.Object3D(): at the origin, no children
NewObject3D == [position |-> Origin, children |-> <<>>]

\* (mutation of CenteredPivot: the centre is added to the position)
CenteredPivotWrongSign(obj) ==
    [NewObject3D EXCEPT
        !.children = <<[obj EXCEPT
                          !.position = VAdd(obj.position, BoxCenter(BoxOfObject(obj)))]>>]

\* lines 38-44: the pivot that wraps the object, the object moved by -center
CenteredPivot(obj) ==
    [NewObject3D EXCEPT
        !.children = <<[obj EXCEPT
                          !.position = VSub(obj.position, BoxCenter(BoxOfObject(obj)))]>>]

\* the boxes with corners in -MaxCoord..MaxCoord, min <= max, min + max even
Coords == (0 - MaxCoord)..MaxCoord
BoundedBoxes ==
    {[min |-> <<a[1], b[1], c[1]>>, max |-> <<a[2], b[2], c[2]>>] :
        a, b, c \in {q \in Coords \X Coords : q[1] <= q[2] /\ (q[1] + q[2]) % 2 = 0}}

\* the cube of the spec's scenario
UnitCube == [min |-> <<-1, -1, -1>>, max |-> <<1, 1, 1>>]
\* the mesh GET /model serves in the viewer's runs: a cube with a corner at the
\* origin (SpecNormalize draws the mesh from all of BoundedBoxes)
ServedBoxes == {[min |-> <<0, 0, 0>>, max |-> <<2, 2, 2>>]}

VARIABLES
    isLoading,      \* useState(false): the busy flag bound to Modal.visible
    rotation,       \* rotation.current.y, microradians
    modelRef,       \* modelRef.current: a pivot, or NullRef
    sceneRef,       \* sceneRef.current: TRUE once the scene exists
    sceneChildren,  \* the pivots that are children of the scene
    ambientLights,  \* the number of ambient lights that are children of the scene
    pivotRotY,      \* pivot.rotation.y of every pivot, microradians
    pivots,         \* position and children of every pivot
    pendingFrames,  \* callbacks registered with requestAnimationFrame, not yet run
    frameParity,    \* the number of frames presented (gl.endFrameEXP), modulo 2
    opKind,         \* per operation: "none", "init", "reload" or "generate"
    pc,             \* per operation: where its handler stands
    result,         \* per operation: how its request completed ("" while unknown)
    trace,          \* per operation: the effects it performed so far, in order
    nextOp,         \* the number of operations started
    dragLog         \* the dx of every move event handled, in order

vars == <<isLoading, rotation, modelRef, sceneRef, sceneChildren, ambientLights,
          pivotRotY, pivots, pendingFrames, frameParity, opKind, pc, result, trace,
          nextOp, dragLog>>

sceneVars == <<modelRef, sceneChildren, pivotRotY, pivots>>
opVars == <<opKind, pc, result, trace, nextOp>>
frameVars == <<pendingFrames, frameParity>>

\* ---- positions of a handler ----------------------------------------------
\* "idle"          not started
\* "load_fetch"    loadModel has called objLoader.load; the request is outstanding
\* "load_resolved" onLoad ran and resolved the promise; the awaiting handler's
\*                 continuation is a pending job
\* "load_rejected" onError ran and rejected the promise; likewise
\* "gen_fetch"     handleGenerate awaits fetch(...)
\* "gen_json"      handleGenerate awaits response.json()
\* "done"          the handler has returned (or its promise was rejected)

\* a request of the operation is outstanding on the network
InFlight(o) == pc[o] \in {"load_fetch", "gen_fetch", "gen_json"}
\* the promise of loadModel is settled and the awaiting handler has not resumed
MicrotaskPending(o) == pc[o] \in {"load_resolved", "load_rejected"}
\* the operation was started and its handler has not finished
Started(o) == pc[o] # "idle"
Finished(o) == pc[o] = "done"

Emit(o, evs) == trace' = [trace EXCEPT ![o] = @ \o evs]

TypeOK ==
    /\ isLoading \in BOOLEAN
    /\ rotation \in Int
    /\ modelRef \in Ops \cup {NullRef}
    /\ sceneRef \in BOOLEAN
    /\ sceneChildren \subseteq Ops
    /\ ambientLights \in 0..1
    /\ pivotRotY \in [Ops -> Int]
    /\ DOMAIN pivots = Ops
    /\ pendingFrames \in Nat
    /\ frameParity \in 0..1
    /\ opKind \in [Ops -> {"none", "init", "reload", "generate"}]
    /\ pc \in [Ops -> {"idle", "load_fetch", "load_resolved", "load_rejected",
                       "gen_fetch", "gen_json", "done"}]
    /\ result \in [Ops -> {""} \cup LoadResults \cup FetchResults \cup JsonResults]
    /\ nextOp \in 0..MaxOps
    /\ dragLog \in Seq(DragDX)
    /\ Len(dragLog) <= MaxDrags

Init ==
    /\ isLoading = FALSE
    /\ rotation = 0
    /\ modelRef = NullRef
    /\ sceneRef = FALSE
    /\ sceneChildren = {}
    /\ ambientLights = 0
    /\ pivotRotY = [p \in Ops |-> 0]
    /\ pivots = [p \in Ops |-> NewObject3D]
    /\ pendingFrames = 0
    /\ frameParity = 0
    /\ opKind = [o \in Ops |-> "none"]
    /\ pc = [o \in Ops |-> "idle"]
    /\ result = [o \in Ops |-> ""]
    /\ trace = [o \in Ops |-> <<>>]
    /\ nextOp = 0
    /\ dragLog = <<>>

\* ---- loadModel -----------------------------------------------------------
\* loadModel(scene, url) up to the return of the promise: operation o, of the
\* given kind, sets the busy flag and issues the request.  `before` are the
\* effects the caller performed before the call.
LoadModelCall(o, kind, before) ==
    /\ isLoading' = TRUE
    /\ opKind' = [opKind EXCEPT ![o] = kind]
    /\ pc' = [pc EXCEPT ![o] = "load_fetch"]
    /\ Emit(o, before \o <<EvBusyOn>>)
    /\ nextOp' = o
    /\ UNCHANGED result

\* (mutation of RemoveExisting: the existing model is never removed)
KeepExisting(children, ref) == children

\* scene.remove(modelRef.current) when a model exists
RemoveExisting(children, ref) ==
    IF ref # NullRef THEN children \ {ref} ELSE children

\* (mutation of LoadOnLoad: attaching a model resets the stored angle)
LoadOnLoadResetsAngle(o, box) ==
    /\ pc[o] = "load_fetch"
    /\ pivots' = [pivots EXCEPT ![o] = CenteredPivot(LoadedObject(box))]
    /\ sceneChildren' = RemoveExisting(sceneChildren, modelRef) \cup {o}
    /\ modelRef' = o
    /\ pivotRotY' = [pivotRotY EXCEPT ![o] = 0]
    /\ rotation' = 0
    /\ isLoading' = FALSE
    /\ pc' = [pc EXCEPT ![o] = "load_resolved"]
    /\ result' = [result EXCEPT ![o] = "ok"]
    /\ Emit(o, <<EvReplace, EvBusyOff>>)
    /\ UNCHANGED <<sceneRef, ambientLights, frameVars, opKind, nextOp,
                   dragLog>>

\* (mutation of LoadOnLoad: the completion of a load that is not the latest
\* request does not touch the scene)
LoadOnLoadDropsStale(o, box) ==
    /\ pc[o] = "load_fetch"
    /\ pivots' = [pivots EXCEPT ![o] = CenteredPivot(LoadedObject(box))]
    /\ IF \E q \in Ops : q > o /\ opKind[q] \in {"init", "reload"}
       THEN UNCHANGED <<sceneChildren, modelRef>>
       ELSE /\ sceneChildren' = RemoveExisting(sceneChildren, modelRef) \cup {o}
            /\ modelRef' = o
    /\ pivotRotY' = [pivotRotY EXCEPT ![o] = 0]
    /\ isLoading' = FALSE
    /\ pc' = [pc EXCEPT ![o] = "load_resolved"]
    /\ result' = [result EXCEPT ![o] = "ok"]
    /\ Emit(o, <<EvReplace, EvBusyOff>>)
    /\ UNCHANGED <<rotation, sceneRef, ambientLights, frameVars, opKind,
                   nextOp, dragLog>>

\* the onLoad callback of objLoader.load, called with the object parsed from
\* a mesh whose bounding box is `box`
LoadOnLoad(o, box) ==
    /\ pc[o] = "load_fetch"
    /\ pivots' = [pivots EXCEPT ![o] = CenteredPivot(LoadedObject(box))]
    /\ sceneChildren' = RemoveExisting(sceneChildren, modelRef) \cup {o}
    /\ modelRef' = o
    /\ pivotRotY' = [pivotRotY EXCEPT ![o] = 0]
    /\ isLoading' = FALSE
    /\ pc' = [pc EXCEPT ![o] = "load_resolved"]
    /\ result' = [result EXCEPT ![o] = "ok"]
    /\ Emit(o, <<EvReplace, EvBusyOff>>)
    /\ UNCHANGED <<rotation, sceneRef, ambientLights, frameVars, opKind,
                   nextOp, dragLog>>

\* (mutation of LoadOnError: the busy flag is not cleared on failure)
LoadOnErrorKeepsBusy(o, r) ==
    /\ pc[o] = "load_fetch"
    /\ r \in LoadResults \ {"ok"}
    /\ pc' = [pc EXCEPT ![o] = "load_rejected"]
    /\ result' = [result EXCEPT ![o] = r]
    /\ Emit(o, <<EvConsoleError>>)
    /\ UNCHANGED <<isLoading, rotation, sceneRef, ambientLights, frameVars,
                   opKind, nextOp, dragLog, sceneVars>>

\* (mutation of LoadOnError: a failure discards the displayed model)
LoadOnErrorClearsScene(o, r) ==
    /\ pc[o] = "load_fetch"
    /\ r \in LoadResults \ {"ok"}
    /\ sceneChildren' = RemoveExisting(sceneChildren, modelRef)
    /\ modelRef' = NullRef
    /\ isLoading' = FALSE
    /\ pc' = [pc EXCEPT ![o] = "load_rejected"]
    /\ result' = [result EXCEPT ![o] = r]
    /\ Emit(o, <<EvConsoleError, EvBusyOff>>)
    /\ UNCHANGED <<rotation, sceneRef, ambientLights, frameVars, opKind,
                   nextOp, dragLog, pivotRotY, pivots>>

\* the onError callback of objLoader.load
LoadOnError(o, r) ==
    /\ pc[o] = "load_fetch"
    /\ r \in LoadResults \ {"ok"}
    /\ isLoading' = FALSE
    /\ pc' = [pc EXCEPT ![o] = "load_rejected"]
    /\ result' = [result EXCEPT ![o] = r]
    /\ Emit(o, <<EvConsoleError, EvBusyOff>>)
    /\ UNCHANGED <<rotation, sceneRef, ambientLights, frameVars, opKind,
                   nextOp, dragLog, sceneVars>>

\* ---- render loop ---------------------------------------------------------
\* (mutation of RenderBody: the rotation is not applied)
RenderBodyNoRotation(frames) ==
    /\ pendingFrames' = frames + 1
    /\ frameParity' = 1 - frameParity
    /\ UNCHANGED pivotRotY

\* (mutation of RenderBody: the next frame is not requested)
RenderBodyNoReschedule(frames) ==
    /\ pendingFrames' = frames
    /\ frameParity' = 1 - frameParity
    /\ pivotRotY' = IF modelRef # NullRef
                    THEN [pivotRotY EXCEPT ![modelRef] = rotation]
                    ELSE pivotRotY

\* the body of render(), entered with `frames` callbacks still registered:
\* schedule the next frame, apply the rotation, draw
RenderBody(frames) ==
    /\ pendingFrames' = frames + 1
    /\ frameParity' = 1 - frameParity
    /\ pivotRotY' = IF modelRef # NullRef
                    THEN [pivotRotY EXCEPT ![modelRef] = rotation]
                    ELSE pivotRotY

\* ---- onContextCreate -----------------------------------------------------
\* GLView calls onContextCreate once, when its GL context exists.
OnContextCreate ==
    /\ ~sceneRef
    /\ nextOp < MaxOps
    /\ sceneRef' = TRUE
    /\ ambientLights' = ambientLights + 1
    /\ LoadModelCall(nextOp + 1, "init", <<>>)
    /\ UNCHANGED <<rotation, frameVars, dragLog, sceneVars>>

\* after `await loadModel(...)` resolved: define render and call it
InitLoaded(o) ==
    /\ opKind[o] = "init"
    /\ pc[o] = "load_resolved"
    /\ RenderBody(pendingFrames)
    /\ pc' = [pc EXCEPT ![o] = "done"]
    /\ Emit(o, <<EvRenderStart>>)
    /\ UNCHANGED <<isLoading, rotation, modelRef, sceneRef, sceneChildren,
                   ambientLights, pivots, opKind, result, nextOp, dragLog>>

\* (mutation of InitFailed: the render loop is started after a failed load too)
InitFailedStartsRender(o) ==
    /\ opKind[o] = "init"
    /\ pc[o] = "load_rejected"
    /\ RenderBody(pendingFrames)
    /\ pc' = [pc EXCEPT ![o] = "done"]
    /\ Emit(o, <<EvRenderStart>>)
    /\ UNCHANGED <<isLoading, rotation, modelRef, sceneRef, sceneChildren,
                   ambientLights, pivots, opKind, result, nextOp, dragLog>>

\* `await loadModel(...)` threw: onContextCreate's promise is rejected, nothing
\* after the await runs
InitFailed(o) ==
    /\ opKind[o] = "init"
    /\ pc[o] = "load_rejected"
    /\ pc' = [pc EXCEPT ![o] = "done"]
    /\ UNCHANGED <<isLoading, rotation, sceneRef, ambientLights, frameVars,
                   opKind, result, trace, nextOp, dragLog,
                   sceneVars>>

\* a frame callback registered by requestAnimationFrame(render) runs
RenderTick ==
    /\ pendingFrames > 0
    /\ RenderBody(pendingFrames - 1)
    /\ UNCHANGED <<isLoading, rotation, modelRef, sceneRef, sceneChildren,
                   ambientLights, pivots, dragLog, opVars>>

\* ---- panResponder --------------------------------------------------------
\* (mutation of OnPanResponderMove: the vertical component also turns the model)
OnPanResponderMoveUsesDy(dx, dy) ==
    /\ Len(dragLog) < MaxDrags
    /\ rotation' = rotation + (dx + dy) * SensitivityMicro
    /\ dragLog' = Append(dragLog, dx)
    /\ UNCHANGED <<isLoading, sceneRef, ambientLights, frameVars, sceneVars,
                   opVars>>

OnPanResponderMove(dx, dy) ==
    /\ Len(dragLog) < MaxDrags
    /\ rotation' = rotation + dx * SensitivityMicro
    /\ dragLog' = Append(dragLog, dx)
    /\ UNCHANGED <<isLoading, sceneRef, ambientLights, frameVars, sceneVars,
                   opVars>>

\* ---- handleGenerate ------------------------------------------------------
HandleGenerate ==
    /\ nextOp < MaxOps
    /\ isLoading' = TRUE
    /\ opKind' = [opKind EXCEPT ![nextOp + 1] = "generate"]
    /\ pc' = [pc EXCEPT ![nextOp + 1] = "gen_fetch"]
    /\ Emit(nextOp + 1, <<EvBusyOn>>)
    /\ nextOp' = nextOp + 1
    /\ UNCHANGED <<rotation, sceneRef, ambientLights, frameVars, result,
                   dragLog, sceneVars>>

\* (mutation of GenerateAfterFetch: response.ok is not checked)
GenerateAfterFetchNoStatusCheck(o, r) ==
    IF r \in {"ok", "http_error"}
    THEN /\ pc' = [pc EXCEPT ![o] = "gen_json"]
         /\ Emit(o, <<EvBodyRead>>)
         /\ UNCHANGED isLoading
    ELSE /\ pc' = [pc EXCEPT ![o] = "done"]
         /\ Emit(o, <<AlertError(MsgNetworkFailed), EvBusyOff>>)
         /\ isLoading' = FALSE

\* what handleGenerate does after `await fetch(...)` settled with r
GenerateAfterFetch(o, r) ==
    IF r = "ok"
    THEN /\ pc' = [pc EXCEPT ![o] = "gen_json"]
         /\ Emit(o, <<EvBodyRead>>)
         /\ UNCHANGED isLoading
    ELSE /\ pc' = [pc EXCEPT ![o] = "done"]
         /\ Emit(o, <<AlertError(IF r = "http_error" THEN MsgGenerateFailed
                                 ELSE MsgNetworkFailed),
                      EvBusyOff>>)
         /\ isLoading' = FALSE

GenerateResponse(o, r) ==
    /\ pc[o] = "gen_fetch"
    /\ r \in FetchResults
    /\ GenerateAfterFetch(o, r)
    /\ result' = [result EXCEPT ![o] = r]
    /\ UNCHANGED <<rotation, sceneRef, ambientLights, frameVars, opKind,
                   nextOp, dragLog, sceneVars>>

\* (mutation of GenerateJson: a successful generate discards the shown model)
GenerateJsonClearsScene(o, r) ==
    /\ pc[o] = "gen_json"
    /\ r \in JsonResults
    /\ pc' = [pc EXCEPT ![o] = "done"]
    /\ result' = [result EXCEPT ![o] = r]
    /\ Emit(o, <<IF r = "ok" THEN AlertSuccess(MsgServer)
                 ELSE AlertError(MsgJsonFailed),
                 EvBusyOff>>)
    /\ isLoading' = FALSE
    /\ sceneChildren' = IF r = "ok" THEN RemoveExisting(sceneChildren, modelRef)
                        ELSE sceneChildren
    /\ modelRef' = IF r = "ok" THEN NullRef ELSE modelRef
    /\ UNCHANGED <<rotation, sceneRef, ambientLights, frameVars, opKind,
                   nextOp, dragLog, pivotRotY, pivots>>

\* what handleGenerate does after `await response.json()` settled with r
GenerateJson(o, r) ==
    /\ pc[o] = "gen_json"
    /\ r \in JsonResults
    /\ pc' = [pc EXCEPT ![o] = "done"]
    /\ result' = [result EXCEPT ![o] = r]
    /\ Emit(o, <<IF r = "ok" THEN AlertSuccess(MsgServer)
                 ELSE AlertError(MsgJsonFailed),
                 EvBusyOff>>)
    /\ isLoading' = FALSE
    /\ UNCHANGED <<rotation, sceneRef, ambientLights, frameVars, opKind,
                   nextOp, dragLog, sceneVars>>

\* ---- handleReloadModel ---------------------------------------------------
\* (mutation of HandleReloadModel: sceneRef.current is not tested)
HandleReloadModelNoGuard ==
    /\ nextOp < MaxOps
    /\ LoadModelCall(nextOp + 1, "reload", <<EvBusyOn>>)
    /\ UNCHANGED <<rotation, sceneRef, ambientLights, frameVars, dragLog,
                   sceneVars>>

\* a press of Reload Model: with a scene, up to `await loadModel(...)`;
\* without one, the handler returns at once, having done nothing
HandleReloadModel ==
    /\ nextOp < MaxOps
    /\ IF sceneRef
       THEN LoadModelCall(nextOp + 1, "reload", <<EvBusyOn>>)
       ELSE /\ opKind' = [opKind EXCEPT ![nextOp + 1] = "reload"]
            /\ pc' = [pc EXCEPT ![nextOp + 1] = "done"]
            /\ nextOp' = nextOp + 1
            /\ UNCHANGED <<isLoading, result, trace>>
    /\ UNCHANGED <<rotation, sceneRef, ambientLights, frameVars, dragLog,
                   sceneVars>>

\* (mutation of ReloadSettled: a successful reload shows no message)
ReloadSettledSilentSuccess(o) ==
    /\ opKind[o] = "reload"
    /\ MicrotaskPending(o)
    /\ pc' = [pc EXCEPT ![o] = "done"]
    /\ Emit(o, IF pc[o] = "load_resolved"
                THEN <<EvBusyOff>>
                ELSE <<Alert("Error: Could not reload model"), EvBusyOff>>)
    /\ isLoading' = FALSE
    /\ UNCHANGED <<rotation, sceneRef, ambientLights, frameVars, opKind,
                   result, nextOp, dragLog, sceneVars>>

\* what handleReloadModel does after `await loadModel(...)` settled
ReloadSettled(o) ==
    /\ opKind[o] = "reload"
    /\ MicrotaskPending(o)
    /\ pc' = [pc EXCEPT ![o] = "done"]
    /\ Emit(o, <<IF pc[o] = "load_resolved"
                 THEN Alert("Success: Model reloaded successfully")
                 ELSE Alert("Error: Could not reload model"),
                 EvBusyOff>>)
    /\ isLoading' = FALSE
    /\ UNCHANGED <<rotation, sceneRef, ambientLights, frameVars, opKind,
                   result, nextOp, dragLog, sceneVars>>

\* ---- the next-state relation ---------------------------------------------
Next ==
    \/ OnContextCreate
    \/ \E o \in Ops, box \in ServedBoxes : LoadOnLoad(o, box)
    \/ \E o \in Ops, r \in LoadResults : LoadOnError(o, r)
    \/ \E o \in Ops : InitLoaded(o)
    \/ \E o \in Ops : InitFailed(o)
    \/ RenderTick
    \/ \E dx \in DragDX, dy \in DragDY : OnPanResponderMove(dx, dy)
    \/ HandleGenerate
    \/ \E o \in Ops, r \in FetchResults : GenerateResponse(o, r)
    \/ \E o \in Ops, r \in JsonResults : GenerateJson(o, r)
    \/ HandleReloadModel
    \/ \E o \in Ops : ReloadSettled(o)

Spec == Init /\ [][Next]_vars

\* The initial load alone, with the served mesh drawn from every bounded box.
NextNormalize ==
    \/ OnContextCreate
    \/ \E o \in Ops, box \in BoundedBoxes : LoadOnLoad(o, box)
    \/ \E o \in Ops : InitLoaded(o)

SpecNormalize == Init /\ [][NextNormalize]_vars

\* ---- fairness ------------------------------------------------------------
\* Every network request eventually completes and every pending continuation
\* eventually runs; the user and the frame scheduler are under no obligation.
Complete(o) ==
    \/ \E r \in LoadResults : LoadOnError(o, r)
    \/ \E box \in ServedBoxes : LoadOnLoad(o, box)
    \/ InitLoaded(o)
    \/ InitFailed(o)
    \/ ReloadSettled(o)
    \/ \E r \in FetchResults : GenerateResponse(o, r)
    \/ \E r \in JsonResults : GenerateJson(o, r)

FairSpec == Spec /\ \A o \in Ops : WF_vars(Complete(o))

\* The frame scheduler eventually runs a registered frame callback.
FrameFairSpec == Spec /\ WF_vars(RenderTick)

\* ---- vocabulary of the properties -----------------------------------------
RECURSIVE Sum(_)
Sum(s) == IF s = <<>> THEN 0 ELSE Head(s) + Sum(Tail(s))

Active(o) == Started(o) /\ ~Finished(o)
IsLoad(o) == opKind[o] \in {"init", "reload"}
Failed(o) == Finished(o) /\ result[o] \notin {"", "ok"}
Succeeded(o) == Finished(o) /\ result[o] = "ok"
AllCompleted == \A o \in Ops : Started(o) => Finished(o)
Events(o) == {trace[o][i] : i \in 1..Len(trace[o])}

ErrorAlerts == {AlertError(MsgGenerateFailed), AlertError(MsgNetworkFailed),
                AlertError(MsgJsonFailed), Alert("Error: Could not reload model")}
SuccessAlerts == {AlertSuccess(MsgServer),
                  Alert("Success: Model reloaded successfully")}

\* ---- C1 -------------------------------------------------------------------
\* C1 (as claimed): at most one operation (initial load, reload or generate)
\* is in flight at any time.
AtMostOneOperation == Cardinality({o \in Ops : Active(o)}) <= 1

\* ---- C2 -------------------------------------------------------------------
\* C2 (as claimed): while any load or generate request is outstanding, the
\* busy flag isLoading is true.
BusyWhileOutstanding == (\E o \in Ops : InFlight(o)) => isLoading

\* ---- C3 -------------------------------------------------------------------
\* C3: the busy flag is never left stuck on: whenever every started operation
\* has completed, isLoading is false; and, requests eventually completing, a
\* set busy flag is eventually cleared.
BusyNeverStuck ==
    /\ [](AllCompleted => ~isLoading)
    /\ (isLoading ~> ~isLoading)

\* a load failed, a generate failed, all is complete and the flag is off
BusyNeverStuckWitness ==
    /\ AllCompleted
    /\ \E o \in Ops : IsLoad(o) /\ Failed(o)
    /\ \E o \in Ops : opKind[o] = "generate" /\ Finished(o)
    /\ ~isLoading

\* ---- C4 -------------------------------------------------------------------
\* C4: the scene has at most one pivot attached, and it is the pivot that
\* modelRef references.
SinglePivot ==
    /\ Cardinality(sceneChildren) <= 1
    /\ sceneChildren = IF modelRef = NullRef THEN {} ELSE {modelRef}

\* two loads have completed successfully, and one pivot is attached
SinglePivotWitness ==
    /\ \E o, q \in Ops : o # q /\ IsLoad(o) /\ IsLoad(q)
                         /\ Succeeded(o) /\ Succeeded(q)
    /\ sceneChildren = {modelRef}

\* ---- C5 -------------------------------------------------------------------
\* C5: a failing load leaves the attached pivot and modelRef as they were, and
\* they change only in the step in which a load completes successfully.
FailedLoadKeepsScene ==
    [][/\ \A o \in Ops :
            (pc[o] = "load_fetch" /\ pc'[o] = "load_rejected")
                => (modelRef' = modelRef /\ sceneChildren' = sceneChildren)
       /\ (modelRef' # modelRef \/ sceneChildren' # sceneChildren)
            => \E o \in Ops : pc[o] = "load_fetch" /\ pc'[o] = "load_resolved"
      ]_vars

\* a reload has failed while a pivot was attached, and the pivot is still there
FailedLoadKeepsSceneWitness ==
    \E o \in Ops :
        /\ opKind[o] = "reload"
        /\ Failed(o)
        /\ modelRef # NullRef
        /\ modelRef # o
        /\ sceneChildren = {modelRef}

\* ---- C6 -------------------------------------------------------------------
\* C6 (as claimed): every failed load or generate operation has shown the user
\* an error message.
EveryFailureReported ==
    \A o \in Ops : Failed(o) => Events(o) \cap ErrorAlerts # {}

\* ---- C7 -------------------------------------------------------------------
\* C7: a generate whose POST returned a non-success status has set the busy
\* flag, then shown "Error: Failed to generate model", then cleared the busy
\* flag, and has done nothing else: no success message, no read of the body.
\* Alone, it shows the busy flag while it waits and leaves it cleared.
GenerateHttpFailureSequence ==
    \A o \in Ops :
        /\ (opKind[o] = "generate" /\ result[o] = "http_error")
            => /\ Finished(o)
               /\ trace[o] = <<EvBusyOn, AlertError(MsgGenerateFailed), EvBusyOff>>
               /\ (\A q \in Ops \ {o} : ~Active(q)) => ~isLoading
        /\ (pc[o] = "gen_fetch" /\ \A q \in Ops \ {o} : ~Started(q))
            => (isLoading /\ trace[o] = <<EvBusyOn>>)

GenerateHttpFailureWitness ==
    \E o \in Ops :
        /\ opKind[o] = "generate"
        /\ result[o] = "http_error"
        /\ \A q \in Ops \ {o} : ~Started(q)
        /\ ~isLoading

\* ---- C8 -------------------------------------------------------------------
\* C8 (as claimed): every load or generate operation that completed
\* successfully has shown a success message.
EverySuccessReported ==
    \A o \in Ops : Succeeded(o) => Events(o) \cap SuccessAlerts # {}

\* C8 (amended): every reload or generate that completed successfully has
\* shown a success message as its last effect before clearing the busy flag;
\* a successful initial load has shown no message.
ReloadGenerateSuccessReported ==
    \A o \in Ops :
        Succeeded(o) =>
            IF opKind[o] = "init"
            THEN \A i \in 1..Len(trace[o]) :
                    trace[o][i] \notin SuccessAlerts \cup ErrorAlerts
            ELSE /\ Len(trace[o]) >= 2
                 /\ trace[o][Len(trace[o]) - 1] \in SuccessAlerts
                 /\ trace[o][Len(trace[o])] = EvBusyOff

\* the initial load and a reload have both completed successfully
ReloadGenerateSuccessWitness ==
    /\ \E o \in Ops : opKind[o] = "reload" /\ Succeeded(o)
    /\ \E o \in Ops : opKind[o] = "init" /\ Succeeded(o)

\* ---- C9 -------------------------------------------------------------------
\* C9: the stored angle is the sum of the dx of all move events handled, times
\* the sensitivity; dy has no part in it.
RotationIsSum == rotation = Sum(dragLog) * SensitivityMicro

\* the moves 100, -50, 200 give 0.25 rad
RotationIsSumWitness ==
    /\ dragLog = <<100, -50, 200>>
    /\ rotation = 250000

\* ---- C10 ------------------------------------------------------------------
\* C10: only a move event changes the stored angle; in particular the step
\* that replaces the model leaves it as it was.
RotationOnlyByDrag ==
    [][/\ (rotation' # rotation) => (Len(dragLog') = Len(dragLog) + 1)
       /\ (modelRef' # modelRef \/ pc' # pc \/ pendingFrames' # pendingFrames
             \/ pivotRotY' # pivotRotY \/ isLoading' # isLoading)
            => rotation' = rotation
      ]_vars

\* a model has just replaced another one after the angle was accumulated, and
\* the angle is still there
RotationOnlyByDragWitness ==
    /\ rotation # 0
    /\ modelRef # NullRef
    /\ pc[modelRef] = "load_resolved"
    /\ \E o \in Ops : o # modelRef /\ IsLoad(o) /\ result[o] = "ok"

\* ---- C11 ------------------------------------------------------------------
\* C11: the pivot built by a successful load is at the origin, has exactly one
\* child, the loaded mesh, and the centre of that mesh's bounding box, in the
\* pivot's coordinates, is the origin; for every bounded box, the point boxes
\* included.
PivotCentersMesh ==
    \A p \in Ops :
        (IsLoad(p) /\ result[p] = "ok") =>
            /\ pivots[p].position = Origin
            /\ Len(pivots[p].children) = 1
            /\ pivots[p].children[1].box \in BoundedBoxes
            /\ BoxCenter(BoxOfObject(pivots[p].children[1])) = Origin

\* a point mesh away from the origin was loaded and moved onto the origin
PivotCentersMeshWitness ==
    \E p \in Ops :
        /\ result[p] = "ok"
        /\ Len(pivots[p].children) = 1
        /\ pivots[p].children[1].box = [min |-> <<2, 0, -2>>, max |-> <<2, 0, -2>>]
        /\ pivots[p].children[1].position = <<-2, 0, 2>>

\* the cube (-1,-1,-1)-(1,1,1) was loaded; its centre is the origin
UnitCubeLoaded ==
    \E p \in Ops :
        /\ result[p] = "ok"
        /\ Len(pivots[p].children) = 1
        /\ pivots[p].children[1].box = UnitCube
        /\ BoxCenter(BoxOfObject(pivots[p].children[1])) = Origin

\* ---- C12 ------------------------------------------------------------------
\* C12 (as claimed): while a load is outstanding, the initial one included,
\* the render loop is running: a frame callback is registered, so ticks occur.
TicksWhileLoading ==
    (\E o \in Ops : IsLoad(o) /\ pc[o] = "load_fetch") => pendingFrames > 0

\* ---- C13 ------------------------------------------------------------------
\* C13: every successful completion of a load is applied, and makes the pivot
\* it built the one attached pivot, whatever the order the loads were
\* requested in: after overlapping loads the last completion's pivot is
\* attached and the earlier completion's pivot is detached.
LaterCompletionWins ==
    [][\A o \in Ops :
          (pc[o] = "load_fetch" /\ pc'[o] = "load_resolved")
              => /\ modelRef' = o
                 /\ sceneChildren' = {o}
                 /\ (modelRef # NullRef => modelRef \notin sceneChildren')
      ]_vars

\* two loads overlapped; the one requested second completed first and the one
\* requested first completed last: the first request's pivot is attached
LaterCompletionWinsWitness ==
    /\ IsLoad(1) /\ IsLoad(2)
    /\ result[1] = "ok" /\ result[2] = "ok"
    /\ modelRef = 1
    /\ sceneChildren = {1}

\* ---- C14 ------------------------------------------------------------------
\* C14 (as claimed): the busy flag is on for as long as a load is outstanding,
\* so it is on at the moment the load's completion replaces the model.
BusyBracketsLoad ==
    \A o \in Ops : (IsLoad(o) /\ pc[o] = "load_fetch") => isLoading

\* ---- C15 ------------------------------------------------------------------
\* C15: which pivot is attached, and modelRef, are left unchanged by the
\* context creation, the request of a load, a failing load, the continuations
\* of a load, a generate and its completions, a move event and a render tick.
SceneChangesOnlyOnLoadSuccess ==
    [][(\/ OnContextCreate
        \/ HandleReloadModel
        \/ \E o \in Ops, r \in LoadResults : LoadOnError(o, r)
        \/ \E o \in Ops : InitLoaded(o) \/ InitFailed(o) \/ ReloadSettled(o)
        \/ HandleGenerate
        \/ \E o \in Ops, r \in FetchResults : GenerateResponse(o, r)
        \/ \E o \in Ops, r \in JsonResults : GenerateJson(o, r)
        \/ \E dx \in DragDX, dy \in DragDY : OnPanResponderMove(dx, dy)
        \/ RenderTick)
          => UNCHANGED <<modelRef, sceneChildren>>
      ]_vars

\* a generate has completed successfully and the model shown is still the one
\* the initial load attached
SceneChangesOnlyOnLoadSuccessWitness ==
    /\ \E o \in Ops : opKind[o] = "generate" /\ Succeeded(o)
    /\ modelRef # NullRef
    /\ opKind[modelRef] = "init"
    /\ sceneChildren = {modelRef}

\* ---- C16 ------------------------------------------------------------------
\* C16: after every run of render(), the first call and every tick, an
\* attached pivot's rotation.y is the stored angle as it is then; render()
\* changes nothing else but the frame bookkeeping, and with no pivot attached
\* it changes no pivot at all.
LoopStarted == \E o \in Ops : EvRenderStart \in Events(o)

TickAppliesLatestAngle ==
    [][(RenderTick \/ \E o \in Ops : InitLoaded(o))
          => /\ modelRef' # NullRef => pivotRotY'[modelRef'] = rotation'
             /\ modelRef' = NullRef => pivotRotY' = pivotRotY
             /\ \A p \in Ops \ {modelRef} : pivotRotY'[p] = pivotRotY[p]
             /\ UNCHANGED <<rotation, modelRef, sceneChildren, pivots, isLoading,
                            sceneRef, ambientLights, dragLog>>
      ]_vars

\* a reload attached a new pivot after the angle was accumulated, and a tick
\* has given that pivot the angle
TickAppliesLatestAngleWitness ==
    /\ modelRef # NullRef
    /\ opKind[modelRef] = "reload"
    /\ rotation # 0
    /\ pivotRotY[modelRef] = rotation

\* ---- C17 ------------------------------------------------------------------
\* C17: once render() has been called, exactly one frame callback is
\* registered at any time (never more than one), and, the frame scheduler
\* being fair, another frame is always eventually presented.
RenderLoopPerpetual ==
    /\ [](pendingFrames <= 1)
    /\ [](LoopStarted => pendingFrames = 1)
    /\ \A b \in 0..1 : (LoopStarted /\ frameParity = b) ~> (frameParity = 1 - b)

\* the loop has started and has ticked since
RenderLoopPerpetualWitness ==
    /\ LoopStarted
    /\ pendingFrames = 1
    /\ frameParity = 0

\* ---- C18 ------------------------------------------------------------------
\* C18: a frame callback is registered, or a frame has been presented, only
\* after the initial load has completed successfully, and then a pivot is
\* attached; after a failed initial load no frame is ever requested or
\* presented, also when a reload succeeds later.
InitOk == \E o \in Ops : opKind[o] = "init" /\ result[o] = "ok"
InitError == \E o \in Ops : opKind[o] = "init" /\ result[o] \notin {"", "ok"}

NoTickBeforeInitialLoad ==
    /\ [](LoopStarted \/ pendingFrames > 0 \/ frameParity # 0
            => InitOk /\ modelRef # NullRef)
    /\ [](InitError => ~LoopStarted /\ pendingFrames = 0 /\ frameParity = 0)
    /\ [][RenderTick => modelRef # NullRef /\ InitOk]_vars

\* the initial load failed, a reload succeeded later, and no frame is requested
NoTickBeforeInitialLoadWitness ==
    /\ InitError
    /\ \E o \in Ops : opKind[o] = "reload" /\ Succeeded(o)
    /\ modelRef # NullRef
    /\ pendingFrames = 0

\* ---- C19 ------------------------------------------------------------------
\* C19: a press of Reload Model that finds sceneRef empty changes nothing: no
\* request is issued, the busy flag, the scene and the angle stay as they are
\* and no effect (no message) is performed; so no load ever runs for a reload
\* pressed before the scene exists.
IgnoredReload(o) == opKind[o] = "reload" /\ result[o] = "" /\ pc[o] = "done"

EarlyReloadIsNoOp ==
    /\ [][(~sceneRef /\ HandleReloadModel)
            => /\ UNCHANGED <<isLoading, rotation, modelRef, sceneRef,
                              sceneChildren, ambientLights, pivotRotY, pivots,
                              pendingFrames, frameParity, trace, result, dragLog>>
               /\ \A o \in Ops : InFlight(o)' = InFlight(o)
               /\ nextOp' = nextOp + 1
               /\ opKind'[nextOp'] = "reload" /\ pc'[nextOp'] = "done"
         ]_vars
    /\ [](\A o \in Ops : (opKind[o] = "reload" /\ Started(o) /\ ~IgnoredReload(o))
                            => sceneRef /\ trace[o] # <<>>)
    /\ [](\A o \in Ops : IgnoredReload(o) => trace[o] = <<>>)

\* Reload Model was pressed before the context was created
EarlyReloadIsNoOpWitness ==
    /\ ~sceneRef
    /\ \E o \in Ops : IgnoredReload(o)
    /\ ~isLoading
    /\ modelRef = NullRef

====
